---- MODULE Spec2Model ----
(***************************************************************************)
(* beautiful-oops: the StoryBook trace model, the StorybookPlugin that     *)
(* feeds it from moment events, the OopsError classifier, and the attempt  *)
(* loop (Moment) that drives them inside an Adventure scope.               *)
(*                                                                         *)
(* Python values are encoded as follows.                                   *)
(*   - a str that the code builds or splits (node ids, chapter and stage   *)
(*     names, messages) is a sequence of string tokens; f-string           *)
(*     concatenation is \o, str.split("#", 1)[0] is the prefix before the  *)
(*     first "#" token, "x in message" is a contiguous-subsequence test;   *)
(*   - None is the falsy value of the field's own type: 0 for a timestamp  *)
(*     or an attempt number, <<>> for an id or a note;                     *)
(*   - time() reads the variable clock, which only moves forward.          *)
(***************************************************************************)
EXTENDS Integers, Sequences, FiniteSets, TLC

(* ------------------------------ bounds -------------------------------- *)
MaxClock == 2          \* the wall clock takes the values 1..MaxClock
MaxBookOps == 4        \* length of a direct StoryBook call sequence
MaxBookAttempt == 2    \* attempt numbers passed to direct StoryBook calls

\* no read accessor has been called since the StoryBook last changed
NotRead == [call |-> "None"]

(* --------------------------- Python falsy values ---------------------- *)
NoTime == 0
NoAttempt == 0
NoId == << >>
NoNote == << >>
NoResult == "None"

(* ------------------------------ oops.py ------------------------------- *)
\* OopsSolution
RETRY == "retry"
ABORT == "abort"
IGNORE == "ignore"
FALLBACK == "fallback"
NoAdvise == "None"

\* OopsCategory
IO == "io"
NETWORK == "network"
TIMEOUT == "timeout"
AUTH == "auth"
RATE_LIMIT == "rate_limit"
BAD_REQUEST == "bad_request"
VALIDATION == "validation"
UNKNOWN == "unknown"
NoCategory == "None"

\* An exception e is a record.  A raw failure carries its class, str(e), the
\* attributes status_code, status and errno (NoStatus, NoErrno when the
\* attribute is missing or None) and an attached response.  An OopsError is
\* the record OopsError(...) builds below; it has none of these attributes
\* and str(e) is its message.
NoStatus == -1
NoErrno == "None"
NoResponse == [present |-> FALSE, status_code |-> NoStatus, status |-> NoStatus]

Raw(cls, msg, status_code, status, response, errno) ==
    [cls |-> cls, msg |-> msg, status_code |-> status_code, status |-> status,
     response |-> response, errno |-> errno]

IsOops(e) == e.cls = "OopsError"

\* str(e)
Str(e) == IF IsOops(e) THEN e.message ELSE e.msg

\* isinstance(e, (asyncio.TimeoutError, TimeoutError, socket.timeout))
IsTimeoutClass(e) == e.cls \in {"TimeoutError", "asyncio.TimeoutError", "socket.timeout"}

\* isinstance(e, (ConnectionError, ..., ssl.SSLError, http.client.*))
IsNetworkClass(e) ==
    e.cls \in {"ConnectionError", "ConnectionAbortedError", "ConnectionRefusedError",
               "ConnectionResetError", "BrokenPipeError", "ssl.SSLError",
               "http.client.RemoteDisconnected", "http.client.CannotSendRequest",
               "http.client.CannotSendHeader"}

\* isinstance(e, (ValueError, TypeError, AssertionError))
IsValidationClass(e) == e.cls \in {"ValueError", "TypeError", "AssertionError"}

\* isinstance(e, OSError), for the classes the earlier tests let through
IsOSError(e) == e.cls \in {"OSError", "FileNotFoundError", "PermissionError"}

IOErrnos == {"EIO", "EROFS", "ENOSPC", "ENOENT", "EACCES"}

\* "needle in message" on token sequences
IsIn(needle, message) ==
    \E i \in 1..(Len(message) - Len(needle) + 1) :
        SubSeq(message, i, i + Len(needle) - 1) = needle

\* Python's "a or b" on two optional status codes
OrStatus(a, b) == IF a # NoStatus /\ a # 0 THEN a ELSE b

\* _guess_http_status that does not look at an attached response
_guess_http_status_attrs_only(e) ==
    IF IsOops(e) THEN NoStatus
    ELSE IF e.status_code # NoStatus THEN e.status_code
    ELSE e.status

_guess_http_status(e) ==
    IF IsOops(e) THEN NoStatus
    ELSE LET viaResponse == IF e.response.present
                            THEN OrStatus(e.response.status_code, e.response.status)
                            ELSE NoStatus
         IN  IF viaResponse # NoStatus THEN viaResponse
             ELSE IF e.status_code # NoStatus THEN e.status_code
             ELSE e.status

\* _classify_exception that drops an unmapped status
_classify_exception_no_passthrough(e, message) ==
    IF IsTimeoutClass(e) THEN <<TIMEOUT, NoStatus>>
    ELSE IF IsNetworkClass(e) THEN <<NETWORK, NoStatus>>
    ELSE IF IsValidationClass(e) THEN <<VALIDATION, NoStatus>>
    ELSE IF IsOSError(e) /\ e.errno \in IOErrnos THEN <<IO, NoStatus>>
    ELSE LET status == _guess_http_status(e)
         IN  IF status # NoStatus /\ status = 429 THEN <<RATE_LIMIT, status>>
             ELSE IF status # NoStatus /\ status \in {401, 403} THEN <<AUTH, status>>
             ELSE IF status # NoStatus /\ 500 <= status /\ status <= 599
                  THEN <<NETWORK, status>>
             ELSE IF status # NoStatus /\ status = 408 THEN <<TIMEOUT, status>>
             ELSE IF \/ IsIn(<<"service unavailable">>, message)
                     \/ IsIn(<<"socket closed">>, message)
                  THEN <<NETWORK, 503>>
             ELSE IF \/ IsIn(<<"validation">>, message)
                     \/ IsIn(<<"invalid">>, message)
                     \/ IsIn(<<"schema">>, message)
                  THEN <<VALIDATION, 400>>
             ELSE IF \/ IsIn(<<"badrequest">>, message)
                     \/ IsIn(<<"invalid", "_request_error">>, message)
                  THEN <<BAD_REQUEST, 400>>
             ELSE <<UNKNOWN, NoStatus>>

\* returns <<category, http_status>>
_classify_exception(e, message) ==
    IF IsTimeoutClass(e) THEN <<TIMEOUT, NoStatus>>
    ELSE IF IsNetworkClass(e) THEN <<NETWORK, NoStatus>>
    ELSE IF IsValidationClass(e) THEN <<VALIDATION, NoStatus>>
    ELSE IF IsOSError(e) /\ e.errno \in IOErrnos THEN <<IO, NoStatus>>
    ELSE LET status == _guess_http_status(e)
         IN  IF status # NoStatus /\ status = 429 THEN <<RATE_LIMIT, status>>
             ELSE IF status # NoStatus /\ status \in {401, 403} THEN <<AUTH, status>>
             ELSE IF status # NoStatus /\ 500 <= status /\ status <= 599
                  THEN <<NETWORK, status>>
             ELSE IF status # NoStatus /\ status = 408 THEN <<TIMEOUT, status>>
             ELSE IF \/ IsIn(<<"service unavailable">>, message)
                     \/ IsIn(<<"socket closed">>, message)
                  THEN <<NETWORK, 503>>
             ELSE IF \/ IsIn(<<"validation">>, message)
                     \/ IsIn(<<"invalid">>, message)
                     \/ IsIn(<<"schema">>, message)
                  THEN <<VALIDATION, 400>>
             ELSE IF \/ IsIn(<<"badrequest">>, message)
                     \/ IsIn(<<"invalid", "_request_error">>, message)
                  THEN <<BAD_REQUEST, 400>>
             ELSE <<UNKNOWN, status>>

_safe_message_by_category(cat) ==
    CASE cat = IO          -> <<"File or disk access failed.">>
      [] cat = NETWORK     -> <<"Network connection failed.">>
      [] cat = TIMEOUT     -> <<"Operation timed out.">>
      [] cat = AUTH        -> <<"Authentication failed. Please check credentials.">>
      [] cat = RATE_LIMIT  -> <<"Too many requests. Please try again later.">>
      [] cat = VALIDATION  -> <<"Input data validation failed.">>
      [] cat = BAD_REQUEST -> <<"Invalid request format or missing required parameters.">>
      [] OTHER             -> <<"An unexpected error occurred.">>

\* _default_advise that retries only NETWORK and RATE_LIMIT
_default_advise_no_timeout(cat) ==
    IF cat \in {NETWORK, RATE_LIMIT} THEN RETRY
    ELSE IF cat = AUTH THEN ABORT
    ELSE IF cat = IO THEN FALLBACK
    ELSE ABORT

_default_advise(cat) ==
    IF cat \in {TIMEOUT, NETWORK, RATE_LIMIT} THEN RETRY
    ELSE IF cat = AUTH THEN ABORT
    ELSE IF cat = IO THEN FALLBACK
    ELSE ABORT

\* OopsError.__init__; an argument left out is the falsy value of its type
OopsError(cause, message, safe_message, category, advise) ==
    LET msg  == IF message # << >> THEN message
                ELSE IF Str(cause) # << >> THEN Str(cause)
                ELSE <<cause.cls>>
        auto == _classify_exception(cause, msg)
        cat  == IF category # NoCategory THEN category ELSE auto[1]
    IN  [cls          |-> "OopsError",
         isNone       |-> FALSE,
         cause        |-> cause,
         message      |-> msg,
         safe_message |-> IF safe_message # << >> THEN safe_message
                          ELSE _safe_message_by_category(cat),
         category     |-> cat,
         advise       |-> IF advise # NoAdvise THEN advise
                          ELSE _default_advise(cat),
         http_status  |-> auto[2]]

\* OopsError.of
of(e) == OopsError(e, << >>, << >>, NoCategory, NoAdvise)

(* ------------------------- storybook.py enums ------------------------- *)
MOMENT == "moment"
ATTEMPT == "attempt"

RUNNING == "running"
SUCCESS == "success"
FAILED == "failed"

VARIABLES
    nodes,           \* StoryBook.nodes: node_id -> StoryNode
    roots,           \* StoryBook.roots
    treasures,       \* StoryBook.treasures
    tears,           \* StoryBook.tears
    clock,           \* the value time() returns now
    closeCalls,      \* history: node_id -> the times of the StoryNode.close calls on it
    bookOps,         \* history: number of direct StoryBook calls made so far
    readout,         \* what the last read accessor call returned
    scope,           \* the Adventure scope: "open" or "ended"
    exitPath,        \* how the scope was left: "normal", "failure", "cancelled"
    cancelRequested, \* the scope has been cancelled from outside
    tasks,           \* invocation -> its Moment, MomentCtx and position
    evlog,           \* history: invocation -> the moment events it emitted
    attached,        \* StorybookPlugin._attached (adv.storybook is set)
    endEvents,       \* history: number of END events the scope emitted
    rendered,        \* history: number of trees the console sink rendered
    bus,             \* history: the dispatches the event bus made in the last step
    decided,         \* history: the last direct Hero.decide call, NotDecided if none
    failure,         \* the exception handed to OopsError.of
    given,           \* the category and advise arguments of that call
    normalized,      \* what OopsError.of returned for it
    normalizeCalls   \* history: number of OopsError.of calls in the chain

storyVars == <<nodes, roots, treasures, tears>>
histVars == <<closeCalls, bookOps, readout>>
engineVars == <<scope, exitPath, cancelRequested, tasks, evlog, attached,
                endEvents, rendered, bus, decided>>
oopsVars == <<failure, given, normalized, normalizeCalls>>
vars == <<nodes, roots, treasures, tears, clock, closeCalls, bookOps, readout,
          scope, exitPath, cancelRequested, tasks, evlog, attached,
          endEvents, rendered, bus, decided, failure, given, normalized,
          normalizeCalls>>

(* ------------------------------ StoryNode ----------------------------- *)
StoryNode(node_type, chapter, stage, attempt, parent_id, now) ==
    [node_type   |-> node_type,
     chapter     |-> chapter,
     stage       |-> stage,
     attempt     |-> attempt,
     parent_id   |-> parent_id,
     status      |-> RUNNING,
     started_at  |-> now,
     finished_at |-> NoTime,
     note        |-> NoNote,
     result      |-> NoResult,
     error       |-> NoNote,
     children    |-> << >>]

\* StoryNode.close with the end timestamp overwritten on every call
CloseRestamp(node, status, note, now) ==
    [node EXCEPT !.finished_at = now,
                 !.status = status,
                 !.note = IF note # NoNote THEN note ELSE @]

\* StoryNode.close
Close(node, status, note, now) ==
    [node EXCEPT !.finished_at = IF @ = NoTime THEN now ELSE @,
                 !.status = status,
                 !.note = IF note # NoNote THEN note ELSE @]

Treasure(chapter, stage, value, now) ==
    [chapter |-> chapter, stage |-> stage, value |-> value, at |-> now]

Tear(chapter, stage, error, now) ==
    [chapter |-> chapter, stage |-> stage, error |-> error, at |-> now]

(* ------------------------------ node ids ------------------------------ *)
build_moment_id(trace_id, chapter, stage) ==
    trace_id \o <<":">> \o chapter \o <<"/">> \o stage

build_attempt_id(trace_id, chapter, stage, attempt) ==
    trace_id \o <<":">> \o chapter \o <<"/">> \o stage
             \o <<"#">> \o <<ToString(attempt)>>

\* attempt_id.split("#", 1)[0]
parse_moment_id_from_attempt(attempt_id) ==
    LET hashes == {i \in 1..Len(attempt_id) : attempt_id[i] = "#"}
    IN  IF hashes = {} THEN attempt_id
        ELSE LET first == CHOOSE i \in hashes : \A j \in hashes : i <= j
             IN  SubSeq(attempt_id, 1, first - 1)

(* ------------------------------ StoryBook ----------------------------- *)
\* The four collections of a StoryBook, as one value the methods transform.
Book == [nodes |-> nodes, roots |-> roots,
         treasures |-> treasures, tears |-> tears]

Contains(seq, x) == \E i \in 1..Len(seq) : seq[i] = x

AppendChild(ns, parent_id, node_id) ==
    IF Contains(ns[parent_id].children, node_id) THEN ns
    ELSE [ns EXCEPT ![parent_id].children = Append(@, node_id)]

\* _ensure_node that builds the node anew when the id is already known
_ensure_node_anew(b, node_id, node_type, chapter, stage, attempt, parent_id, now) ==
    LET ns == (node_id :> StoryNode(node_type, chapter, stage,
                                    attempt, parent_id, now)) @@ b.nodes
    IN  IF node_type = MOMENT
        THEN IF parent_id = NoId
             THEN [b EXCEPT !.nodes = ns, !.roots = Append(@, node_id)]
             ELSE IF parent_id \in DOMAIN ns
                  THEN [b EXCEPT !.nodes = AppendChild(ns, parent_id, node_id)]
                  ELSE [b EXCEPT !.nodes = ns]
        ELSE IF parent_id # NoId /\ parent_id \in DOMAIN ns
             THEN [b EXCEPT !.nodes = AppendChild(ns, parent_id, node_id)]
             ELSE [b EXCEPT !.nodes = ns]

\* _ensure_node that lists every new moment among the roots
_ensure_node_rooting(b, node_id, node_type, chapter, stage, attempt, parent_id, now) ==
    IF node_id \in DOMAIN b.nodes THEN b
    ELSE LET ns == b.nodes @@
                   (node_id :> StoryNode(node_type, chapter, stage,
                                         attempt, parent_id, now))
         IN  IF node_type = MOMENT
             THEN IF parent_id = NoId
                  THEN [b EXCEPT !.nodes = ns, !.roots = Append(@, node_id)]
                  ELSE IF parent_id \in DOMAIN ns
                       THEN [b EXCEPT !.nodes = AppendChild(ns, parent_id, node_id),
                                      !.roots = Append(@, node_id)]
                       ELSE [b EXCEPT !.nodes = ns, !.roots = Append(@, node_id)]
             ELSE IF parent_id # NoId /\ parent_id \in DOMAIN ns
                  THEN [b EXCEPT !.nodes = AppendChild(ns, parent_id, node_id)]
                  ELSE [b EXCEPT !.nodes = ns]

_ensure_node(b, node_id, node_type, chapter, stage, attempt, parent_id, now) ==
    IF node_id \in DOMAIN b.nodes THEN b
    ELSE LET ns == b.nodes @@
                   (node_id :> StoryNode(node_type, chapter, stage,
                                         attempt, parent_id, now))
         IN  IF node_type = MOMENT
             THEN IF parent_id = NoId
                  THEN [b EXCEPT !.nodes = ns, !.roots = Append(@, node_id)]
                  ELSE IF parent_id \in DOMAIN ns
                       THEN [b EXCEPT !.nodes = AppendChild(ns, parent_id, node_id)]
                       ELSE [b EXCEPT !.nodes = ns]
             ELSE IF parent_id # NoId /\ parent_id \in DOMAIN ns
                  THEN [b EXCEPT !.nodes = AppendChild(ns, parent_id, node_id)]
                  ELSE [b EXCEPT !.nodes = ns]

enter(b, trace_id, chapter, stage, parent_span_id, now) ==
    _ensure_node(b, build_moment_id(trace_id, chapter, stage), MOMENT,
                 chapter, stage, NoAttempt, parent_span_id, now)

attempt_enter(b, trace_id, chapter, stage, attempt, span_id, parent_span_id, now) ==
    LET attempt_id == IF span_id # NoId THEN span_id
                      ELSE build_attempt_id(trace_id, chapter, stage, attempt)
        parent_id  == IF parent_span_id # NoId THEN parent_span_id
                      ELSE parse_moment_id_from_attempt(attempt_id)
        b1 == _ensure_node(b, parent_id, MOMENT, chapter, stage,
                           NoAttempt, NoId, now)
    IN  _ensure_node(b1, attempt_id, ATTEMPT, chapter, stage,
                     attempt, parent_id, now)

\* attempt_success that closes the attempt and leaves its moment alone
attempt_success_attempt_only(b, attempt_id, result, now) ==
    IF attempt_id \notin DOMAIN b.nodes THEN b
    ELSE LET node == Close([b.nodes[attempt_id] EXCEPT !.result = result],
                           SUCCESS, NoNote, now)
         IN  [b EXCEPT !.nodes[attempt_id] = node,
                       !.treasures = Append(@, Treasure(node.chapter, node.stage,
                                                        result, now))]

attempt_success(b, attempt_id, result, now) ==
    IF attempt_id \notin DOMAIN b.nodes THEN b
    ELSE LET node == Close([b.nodes[attempt_id] EXCEPT !.result = result],
                           SUCCESS, NoNote, now)
             n1 == [b.nodes EXCEPT ![attempt_id] = node]
             parent_id == IF node.parent_id # NoId THEN node.parent_id
                          ELSE parse_moment_id_from_attempt(attempt_id)
             n2 == IF parent_id \in DOMAIN n1 /\ n1[parent_id].status = RUNNING
                   THEN [n1 EXCEPT ![parent_id] = Close(@, SUCCESS, NoNote, now)]
                   ELSE n1
         IN  [b EXCEPT !.nodes = n2,
                       !.treasures = Append(@, Treasure(node.chapter, node.stage,
                                                        result, now))]

\* The ctx.oops a handler passes on: an OopsError is the record carrying its
\* message; None (no error on the context) is NoOops.
NoOops == [isNone |-> TRUE, message |-> <<"None">>]

\* getattr(oops, "message", str(oops)) if oops else "unknown"
ErrorTextOrUnknown(oops) == IF oops.isNone THEN <<"unknown">> ELSE oops.message

\* getattr(oops, "message", str(oops))
ErrorText(oops) == oops.message

\* attempt_fail that marks the attempt FAILED without closing it
attempt_fail_unstamped(b, attempt_id, oops, now) ==
    IF attempt_id \notin DOMAIN b.nodes THEN b
    ELSE LET err == ErrorTextOrUnknown(oops)
         IN  [b EXCEPT !.nodes[attempt_id] =
                 [@ EXCEPT !.error = err, !.status = FAILED, !.note = err]]

attempt_fail(b, attempt_id, oops, now) ==
    IF attempt_id \notin DOMAIN b.nodes THEN b
    ELSE LET err == ErrorTextOrUnknown(oops)
         IN  [b EXCEPT !.nodes[attempt_id] =
                 Close([@ EXCEPT !.error = err], FAILED, err, now)]

\* fail that closes the moment and records no Tear
fail_no_tear(b, trace_id, chapter, stage, oops, now) ==
    LET moment_id == build_moment_id(trace_id, chapter, stage)
        b1  == _ensure_node(b, moment_id, MOMENT, chapter, stage,
                            NoAttempt, NoId, now)
        err == ErrorText(oops)
    IN  [b1 EXCEPT !.nodes[moment_id] =
                       Close([@ EXCEPT !.error = err], FAILED, err, now)]

fail(b, trace_id, chapter, stage, oops, now) ==
    LET moment_id == build_moment_id(trace_id, chapter, stage)
        b1  == _ensure_node(b, moment_id, MOMENT, chapter, stage,
                            NoAttempt, NoId, now)
        err == ErrorText(oops)
    IN  [b1 EXCEPT !.nodes[moment_id] =
                       Close([@ EXCEPT !.error = err], FAILED, err, now),
                   !.tears = Append(@, Tear(chapter, stage, err, now))]

\* get_roots, as the ids of the nodes it returns
get_roots(b) == SelectSeq(b.roots, LAMBDA rid : rid \in DOMAIN b.nodes)

\* get_children, as the ids of the nodes it returns
get_children(b, node_id) ==
    IF node_id \notin DOMAIN b.nodes THEN << >>
    ELSE SelectSeq(b.nodes[node_id].children, LAMBDA cid : cid \in DOMAIN b.nodes)

\* render_ascii: a line is the record of its parts.  The glyphs are named:
\* connectors "last" (U+2517 U+2501 U+2501) and "mid" (U+2523 U+2501
\* U+2501), prefix pieces "blank" (four spaces) and "bar" (U+2503 and
\* three spaces), marks "check", "skull" and "hourglass".
mark(n) ==
    IF n.status = SUCCESS THEN "check"
    ELSE IF n.status = FAILED THEN "skull" ELSE "hourglass"

tag(n) == IF n.node_type = MOMENT THEN <<"[M]">>
          ELSE <<"[A#", ToString(n.attempt), "]">>

\* StoryNode.duration as dur() prints it; "" when it is None or not shown
dur(n, show_time) ==
    IF ~show_time THEN ""
    ELSE IF n.finished_at = NoTime THEN ""
    ELSE IF n.finished_at - n.started_at > 0
         THEN ToString(n.finished_at - n.started_at) ELSE "0"

\* what walk appends when the recursion does not end (RecursionError)
RecursionError == [raised |-> "RecursionError"]

RECURSIVE walk(_, _, _, _, _, _)
RECURSIVE walk_children(_, _, _, _, _, _)

\* walk(node_id, prefix, is_last): the lines it appends.  depth counts the
\* frames left: a path longer than the number of nodes never ends.
walk(b, node_id, prefix, is_last, show_time, depth) ==
    IF node_id \notin DOMAIN b.nodes THEN << >>
    ELSE IF depth = 0 THEN <<RecursionError>>
    ELSE LET node == b.nodes[node_id]
             line == [prefix    |-> prefix,
                      connector |-> IF is_last THEN "last" ELSE "mid",
                      tag       |-> tag(node),
                      chapter   |-> node.chapter,
                      stage     |-> node.stage,
                      mark      |-> mark(node),
                      dur       |-> dur(node, show_time)]
             children == get_children(b, node_id)
             child_prefix == Append(prefix, IF is_last THEN "blank" ELSE "bar")
         IN  <<line>> \o walk_children(b, children, child_prefix, 1,
                                       show_time, depth - 1)

\* for i, ch in enumerate(children): walk(ch.node_id, child_prefix, ...)
walk_children(b, children, child_prefix, i, show_time, depth) ==
    IF i > Len(children) THEN << >>
    ELSE walk(b, children[i], child_prefix, i = Len(children), show_time, depth)
         \o walk_children(b, children, child_prefix, i + 1, show_time, depth)

RECURSIVE walk_roots(_, _, _, _)
\* the loop over the roots with every root taken for the last one
walk_roots_all_last(b, listed, ridx, show_time) ==
    IF ridx > Len(listed) THEN << >>
    ELSE walk(b, listed[ridx], << >>, TRUE, show_time,
              Cardinality(DOMAIN b.nodes) + 1)
         \o walk_roots(b, listed, ridx + 1, show_time)

\* for ridx, root_id in enumerate([...]): walk(root_id, "", ridx == len(self.roots) - 1)
walk_roots(b, listed, ridx, show_time) ==
    IF ridx > Len(listed) THEN << >>
    ELSE walk(b, listed[ridx], << >>, ridx = Len(b.roots), show_time,
              Cardinality(DOMAIN b.nodes) + 1)
         \o walk_roots(b, listed, ridx + 1, show_time)

\* render_ascii that closes the footprints it finds RUNNING
render_ascii_closing(b, show_time) ==
    [book |-> [b EXCEPT !.nodes =
                  [id \in DOMAIN b.nodes |->
                      IF b.nodes[id].status = RUNNING
                      THEN Close(b.nodes[id], FAILED, NoNote, 1)
                      ELSE b.nodes[id]]],
     raised |-> FALSE,
     lines |-> walk_roots(b, get_roots(b), 1, show_time)]

\* render_ascii: the lines it joins, or the RecursionError it raises; it
\* assigns to no field of the StoryBook
render_ascii(b, show_time) ==
    LET lines == walk_roots(b, get_roots(b), 1, show_time)
    IN  IF Contains(lines, RecursionError)
        THEN [book |-> b, raised |-> TRUE, lines |-> << >>]
        ELSE [book |-> b, raised |-> FALSE, lines |-> lines]

(* --------------------------- moment.py, hero.py ----------------------- *)
MomentCtx(attempt) ==
    [attempt |-> attempt, oops |-> NoOops, result |-> NoResult, wait_seconds |-> 0]

\* next_attempt that numbers the context and does not store the new count
next_attempt_forgetful(n) == [attempt |-> n, ctx |-> MomentCtx(n + 1)]

\* next_attempt handing out the counter's value from before the increment
next_attempt_stale(n) == [attempt |-> n + 1, ctx |-> MomentCtx(n)]

\* Moment.next_attempt on a Moment whose attempt counter is n: the counter
\* after the call and the context the call returns
next_attempt(n) == [attempt |-> n + 1, ctx |-> MomentCtx(n + 1)]

Advice(action, wait_seconds) == [action |-> action, wait_seconds |-> wait_seconds]

\* Hero.decide that never waits
decide_no_wait(ctx, advice) ==
    [action |-> advice.action, wait_seconds |-> 0]

\* Hero.decide: the Decision it returns
decide(ctx, advice) ==
    [action |-> advice.action, wait_seconds |-> advice.wait_seconds]

\* hero.decide(ctx=ctx, advice=advice) as a call: the arguments as passed,
\* the Decision returned, and the two argument objects as the call leaves
\* them; decide assigns to no field of either
HeroCall(ctx, advice) ==
    [called       |-> TRUE,
     ctx          |-> ctx,
     advice       |-> advice,
     decision     |-> decide(ctx, advice),
     ctx_after    |-> ctx,
     advice_after |-> advice]

NotDecided == [called |-> FALSE]

(* --------------------------- storybook_plugin.py ---------------------- *)
\* m is ctx.moment: the scope's trace_id and the StageInfo of the operation.
\* MomentCtx has no parent_span_id field, so getattr(ctx, "parent_span_id",
\* None) is None.
_attempt_id(m, ctx) == build_attempt_id(m.trace_id, m.chapter, m.stage, ctx.attempt)

on_moment_enter(b, m, ctx, now) ==
    enter(b, m.trace_id, m.chapter, m.stage, NoId, now)

on_moment_before_fn(b, m, ctx, now) ==
    attempt_enter(b, m.trace_id, m.chapter, m.stage, ctx.attempt,
                  _attempt_id(m, ctx), NoId, now)

\* on_moment_retry that treats the event as a terminal failure
on_moment_retry_as_fail(b, m, ctx, now) ==
    fail(attempt_fail(b, _attempt_id(m, ctx), ctx.oops, now),
         m.trace_id, m.chapter, m.stage, ctx.oops, now)

on_moment_retry(b, m, ctx, now) ==
    attempt_fail(b, _attempt_id(m, ctx), ctx.oops, now)

on_moment_success(b, m, ctx, now) ==
    attempt_success(b, _attempt_id(m, ctx), ctx.result, now)

on_moment_fail(b, m, ctx, now) ==
    fail(attempt_fail(b, _attempt_id(m, ctx), ctx.oops, now),
         m.trace_id, m.chapter, m.stage, ctx.oops, now)

(* ------------------- the attempt engine and the scope ----------------- *)
NumInv == 2            \* invocations of wrapped operations in the scope
Inv == 1..NumInv

TraceId == <<"t1">>

BackoffBase == 1
BackoffFactor == 2
MaxWait == 4

\* The wrapped operations of the examples: their StageInfo, their
\* SimpleBackoffElf (rules by failure class, retries), what the raw function
\* raises when it fails and returns when it succeeds.
Ops == {"decode_scroll", "reflect_illusion", "cross_bridge",
        "read_omen", "ford_river"}

\* example_concurrent_example.py: always returns
decode_scroll ==
    [chapter |-> <<"I">>, stage |-> <<"decode_scroll">>,
     rules |-> << >>, retries |-> 3,
     mayFail |-> FALSE, maySucceed |-> TRUE,
     raises |-> Raw("Exception", << >>, NoStatus, NoStatus, NoResponse, NoErrno),
     returns |-> "ancient wisdom"]

\* example_concurrent_example.py: raises ValueError or returns, retries=3
reflect_illusion ==
    [chapter |-> <<"II">>, stage |-> <<"reflect_illusion">>,
     rules |-> ("ValueError" :> RETRY), retries |-> 3,
     mayFail |-> TRUE, maySucceed |-> TRUE,
     raises |-> Raw("ValueError", <<"fog">>, NoStatus, NoStatus,
                    NoResponse, NoErrno),
     returns |-> "clear vision"]

\* example_streaming_story.py: raises RuntimeError or returns, retries=2
cross_bridge ==
    [chapter |-> <<"Chapter III">>, stage |-> <<"cross_bridge">>,
     rules |-> ("RuntimeError" :> RETRY), retries |-> 2,
     mayFail |-> TRUE, maySucceed |-> TRUE,
     raises |-> Raw("RuntimeError", <<"Bridge collapsed into the mist.">>,
                    NoStatus, NoStatus, NoResponse, NoErrno),
     returns |-> "Bridge holds. The party crosses safely."]

\* an operation whose elf answers IGNORE for what it raises
read_omen ==
    [chapter |-> <<"IV">>, stage |-> <<"read_omen">>,
     rules |-> ("KeyError" :> IGNORE), retries |-> 3,
     mayFail |-> TRUE, maySucceed |-> FALSE,
     raises |-> Raw("KeyError", <<"omen">>, NoStatus, NoStatus,
                    NoResponse, NoErrno),
     returns |-> "None"]

\* an operation with no rule for what it raises: OSError(ENOSPC) is
\* classified IO, whose default advise is FALLBACK
ford_river ==
    [chapter |-> <<"V">>, stage |-> <<"ford_river">>,
     rules |-> << >>, retries |-> 3,
     mayFail |-> TRUE, maySucceed |-> FALSE,
     raises |-> Raw("OSError", <<"No space left on device">>, NoStatus,
                    NoStatus, NoResponse, "ENOSPC"),
     returns |-> "None"]

OpDef(op) ==
    CASE op = "decode_scroll"    -> decode_scroll
      [] op = "reflect_illusion" -> reflect_illusion
      [] op = "cross_bridge"     -> cross_bridge
      [] op = "read_omen"        -> read_omen
      [] op = "ford_river"       -> ford_river

MomentOf(op) ==
    [trace_id |-> TraceId, chapter |-> OpDef(op).chapter, stage |-> OpDef(op).stage]

RECURSIVE Power(_, _)
Power(x, n) == IF n = 0 THEN 1 ELSE x * Power(x, n - 1)

Min(a, b) == IF a <= b THEN a ELSE b

\* the engine normalizes a failure unless it already is an OopsError
Normalize(e) == IF IsOops(e) THEN e ELSE of(e)

\* SimpleBackoffElf: the rule for the failure's class, else the error's
\* default advise; ABORT once attemptNumber >= retries
ElfAdvise(d, oops, attemptNumber) ==
    LET rule == IF oops.cause.cls \in DOMAIN d.rules
                THEN d.rules[oops.cause.cls] ELSE oops.advise
    IN  IF attemptNumber >= d.retries THEN Advice(ABORT, 0)
        ELSE IF rule = RETRY
             THEN Advice(RETRY, Min(MaxWait,
                         BackoffBase * Power(BackoffFactor, attemptNumber - 1)))
             ELSE Advice(rule, 0)

\* The observers of the scope, in registration order (the plugins=[...] of
\* the examples).
Observers == <<"TracingStackPlugin", "StorybookPlugin", "StorybookConsoleSinkPlugin">>

MomentKinds == {"ENTER", "BEFORE_FN", "RETRY", "SUCCESS", "FAIL", "IGNORE",
                "FALLBACK", "ABORT", "EXIT"}

\* the event kinds an observer declares
supported_events(o) ==
    CASE o = "StorybookPlugin"            -> MomentKinds
      [] o = "StorybookConsoleSinkPlugin" -> {"END"}
      [] OTHER                            -> MomentKinds \cup {"END"}

\* the observers whose handler may raise while it handles an event
MayFail == {"TracingStackPlugin"}

\* a dispatch that stops at the first observer whose handler raises
DispatchStopAtFailure(kind, failing) ==
    LET declared == SelectSeq(Observers, LAMBDA o : kind \in supported_events(o))
        stops    == {n \in 1..Len(declared) : declared[n] \in failing}
        called   == IF stops = {} THEN declared
                    ELSE SubSeq(declared, 1,
                                CHOOSE n \in stops : \A k \in stops : n <= k)
    IN  [kind |-> kind, called |-> called,
         failed |-> {called[n] : n \in 1..Len(called)} \cap failing]

\* The bus dispatches one event: every observer that declared the kind is
\* called, in registration order; the handlers of the observers in failing
\* raise, which is reported through the side channel (failed) and nothing else.
Dispatch(kind, failing) ==
    LET called == SelectSeq(Observers, LAMBDA o : kind \in supported_events(o))
    IN  [kind |-> kind, called |-> called,
         failed |-> {called[n] : n \in 1..Len(called)} \cap failing]

\* Adventure.emit of a moment event, as far as the StoryBook is concerned:
\* the StorybookPlugin handler of that kind runs, if it has one
Emit(b, kind, m, ctx, now) ==
    CASE kind = "ENTER"     -> on_moment_enter(b, m, ctx, now)
      [] kind = "BEFORE_FN" -> on_moment_before_fn(b, m, ctx, now)
      [] kind = "RETRY"     -> on_moment_retry(b, m, ctx, now)
      [] kind = "SUCCESS"   -> on_moment_success(b, m, ctx, now)
      [] kind = "FAIL"      -> on_moment_fail(b, m, ctx, now)
      [] OTHER              -> b

\* the StoryBook after the dispatch disp: StorybookPlugin handles the event
\* if the bus called it
Handle(b, disp, m, ctx, now) ==
    IF Contains(disp.called, "StorybookPlugin")
    THEN Emit(b, disp.kind, m, ctx, now)
    ELSE b

Ev(kind, ctx) == [kind |-> kind, ctx |-> ctx]

IdleTask == [pc |-> "idle", op |-> "None", attempt |-> 0, ctx |-> MomentCtx(0),
             cancelledAt |-> "None"]

SetBook(b) ==
    /\ nodes' = b.nodes
    /\ roots' = b.roots
    /\ treasures' = b.treasures
    /\ tears' = b.tears

InitStory ==
    /\ nodes = << >>
    /\ roots = << >>
    /\ treasures = << >>
    /\ tears = << >>
    /\ clock = 1
    /\ closeCalls = << >>
    /\ bookOps = 0
    /\ readout = NotRead

InitEngine ==
    /\ scope = "open"
    /\ exitPath = "None"
    /\ cancelRequested = FALSE
    /\ tasks = [i \in Inv |-> IdleTask]
    /\ evlog = [i \in Inv |-> << >>]
    /\ attached = FALSE
    /\ endEvents = 0
    /\ rendered = 0
    /\ bus = << >>
    /\ decided = NotDecided

NoFailure == Raw("None", << >>, NoStatus, NoStatus, NoResponse, NoErrno)

NotGiven == [category |-> NoCategory, advise |-> NoAdvise]

InitOopsIdle ==
    /\ failure = NoFailure
    /\ given = NotGiven
    /\ normalized = NoFailure
    /\ normalizeCalls = 0

Init == InitStory /\ InitEngine /\ InitOopsIdle

Tick ==
    /\ clock < MaxClock
    /\ clock' = clock + 1
    /\ UNCHANGED <<storyVars, histVars, engineVars, oopsVars>>

\* A wrapped operation is called: ENTER, then the first pass of the loop up
\* to the call of the raw function (next_attempt, BEFORE_FN).
Invoke(i, op) ==
    /\ scope = "open"
    /\ ~cancelRequested
    /\ tasks[i].pc = "idle"
    /\ \A j \in Inv : j < i => tasks[j].pc # "idle"
    /\ \E f1 \in SUBSET MayFail, f2 \in SUBSET MayFail :
       LET m   == MomentOf(op)
           na  == next_attempt(0)
           d1  == Dispatch("ENTER", f1)
           d2  == Dispatch("BEFORE_FN", f2)
           b1  == Handle(Book, d1, m, MomentCtx(0), clock)
           b2  == Handle(b1, d2, m, na.ctx, clock)
       IN  /\ SetBook(b2)
           /\ bus' = <<d1, d2>>
           /\ tasks' = [tasks EXCEPT ![i] = [pc |-> "running", op |-> op,
                                             attempt |-> na.attempt,
                                             ctx |-> na.ctx,
                                             cancelledAt |-> "None"]]
           /\ evlog' = [evlog EXCEPT ![i] =
                           <<Ev("ENTER", MomentCtx(0)), Ev("BEFORE_FN", na.ctx)>>]
    /\ attached' = TRUE
    /\ UNCHANGED <<clock, histVars, scope, exitPath, cancelRequested,
                   endEvents, rendered, decided,
                   oopsVars>>

\* The raw function returns: SUCCESS, the result goes to the caller.
Succeed(i) ==
    /\ tasks[i].pc = "running"
    /\ OpDef(tasks[i].op).maySucceed
    /\ \E f1 \in SUBSET MayFail :
       LET m   == MomentOf(tasks[i].op)
           ctx == [tasks[i].ctx EXCEPT !.result = OpDef(tasks[i].op).returns]
           d1  == Dispatch("SUCCESS", f1)
       IN  /\ SetBook(Handle(Book, d1, m, ctx, clock))
           /\ bus' = <<d1>>
           /\ tasks' = [tasks EXCEPT ![i].pc = "success", ![i].ctx = ctx]
           /\ evlog' = [evlog EXCEPT ![i] = Append(@, Ev("SUCCESS", ctx))]
    /\ UNCHANGED <<clock, histVars, scope, exitPath, cancelRequested, attached,
                   endEvents, rendered, decided,
                   oopsVars>>

\* The raw function raises: normalize, ask the elf and the hero, branch.
Fail(i) ==
    /\ tasks[i].pc = "running"
    /\ OpDef(tasks[i].op).mayFail
    /\ \E f1 \in SUBSET MayFail, f2 \in SUBSET MayFail :
       LET d        == OpDef(tasks[i].op)
           m        == MomentOf(tasks[i].op)
           oops     == Normalize(d.raises)
           advice   == ElfAdvise(d, oops, tasks[i].ctx.attempt)
           decision == decide(tasks[i].ctx, advice)
           ctx      == [tasks[i].ctx EXCEPT !.oops = oops,
                                            !.wait_seconds = decision.wait_seconds]
       IN  CASE decision.action = RETRY ->
                 /\ f2 = {}
                 /\ SetBook(Handle(Book, Dispatch("RETRY", f1), m, ctx, clock))
                 /\ bus' = <<Dispatch("RETRY", f1)>>
                 /\ tasks' = [tasks EXCEPT ![i].pc = "sleeping", ![i].ctx = ctx]
                 /\ evlog' = [evlog EXCEPT ![i] = Append(@, Ev("RETRY", ctx))]
             [] decision.action = IGNORE ->
                 /\ f2 = {}
                 /\ SetBook(Handle(Book, Dispatch("IGNORE", f1), m, ctx, clock))
                 /\ bus' = <<Dispatch("IGNORE", f1)>>
                 /\ tasks' = [tasks EXCEPT ![i].pc = "ignored", ![i].ctx = ctx]
                 /\ evlog' = [evlog EXCEPT ![i] = Append(@, Ev("IGNORE", ctx))]
             [] decision.action = FALLBACK ->
                 /\ f2 = {}
                 /\ SetBook(Handle(Book, Dispatch("FALLBACK", f1), m, ctx, clock))
                 /\ bus' = <<Dispatch("FALLBACK", f1)>>
                 /\ tasks' = [tasks EXCEPT ![i].pc = "fallback", ![i].ctx = ctx]
                 /\ evlog' = [evlog EXCEPT ![i] = Append(@, Ev("FALLBACK", ctx))]
             [] OTHER ->
                 /\ SetBook(Handle(Handle(Book, Dispatch("FAIL", f1), m, ctx, clock),
                                   Dispatch("EXIT", f2), m, ctx, clock))
                 /\ bus' = <<Dispatch("FAIL", f1), Dispatch("EXIT", f2)>>
                 /\ tasks' = [tasks EXCEPT ![i].pc = "aborted", ![i].ctx = ctx]
                 /\ evlog' = [evlog EXCEPT ![i] =
                                 @ \o <<Ev("FAIL", ctx), Ev("EXIT", ctx)>>]
    /\ UNCHANGED <<clock, histVars, scope, exitPath, cancelRequested, attached,
                   endEvents, rendered, decided,
                   oopsVars>>

\* The backoff sleep is over: the next pass of the loop.
Wake(i) ==
    /\ tasks[i].pc = "sleeping"
    /\ ~cancelRequested
    /\ \E f1 \in SUBSET MayFail :
       LET m  == MomentOf(tasks[i].op)
           na == next_attempt(tasks[i].attempt)
           d1 == Dispatch("BEFORE_FN", f1)
       IN  /\ SetBook(Handle(Book, d1, m, na.ctx, clock))
           /\ bus' = <<d1>>
           /\ tasks' = [tasks EXCEPT ![i].pc = "running",
                                     ![i].attempt = na.attempt,
                                     ![i].ctx = na.ctx]
           /\ evlog' = [evlog EXCEPT ![i] = Append(@, Ev("BEFORE_FN", na.ctx))]
    /\ UNCHANGED <<clock, histVars, scope, exitPath, cancelRequested, attached,
                   endEvents, rendered, decided,
                   oopsVars>>

\* The scope is cancelled from outside.
RequestCancel ==
    /\ scope = "open"
    /\ ~cancelRequested
    /\ cancelRequested' = TRUE
    /\ bus' = << >>
    /\ UNCHANGED <<storyVars, clock, histVars, scope, exitPath, tasks, evlog,
                   attached, endEvents, rendered, decided,
                   oopsVars>>

\* A suspended invocation (in the raw function's own wait, or in the backoff
\* sleep) is cancelled: by the scope's cancellation, or by the joint await
\* of which a sibling has aborted.  MomentEvent has no CANCEL member and
\* the task unwinds without a moment event.
Cancel(i) ==
    /\ tasks[i].pc \in {"running", "sleeping"}
    /\ cancelRequested \/ \E j \in Inv : tasks[j].pc = "aborted"
    /\ tasks' = [tasks EXCEPT ![i].pc = "cancelled",
                              ![i].cancelledAt = tasks[i].pc]
    /\ bus' = << >>
    /\ UNCHANGED <<storyVars, clock, histVars, scope, exitPath, cancelRequested,
                   evlog, attached, endEvents, rendered, decided,
                   oopsVars>>

\* StorybookConsoleSinkPlugin.on_adventure_end, background=False: 1 if it
\* renders the tree, 0 if it returns early
on_adventure_end(only_when_ok, isAttached) ==
    IF ~only_when_ok THEN 0
    ELSE IF ~isAttached THEN 0
    ELSE 1

Suspended == {i \in Inv : tasks[i].pc \in {"running", "sleeping"}}

\* leaving the scope with END emitted on the normal return only
LeaveScopeEndOnReturn(path) ==
    /\ scope = "open"
    /\ Suspended = {}
    /\ scope' = "ended"
    /\ exitPath' = path
    /\ endEvents' = endEvents + (IF path = "normal" THEN 1 ELSE 0)
    /\ \E ok \in BOOLEAN, f1 \in SUBSET MayFail :
          LET d1 == Dispatch("END", f1)
          IN  /\ bus' = <<d1>>
              /\ rendered' = rendered +
                     (IF Contains(d1.called, "StorybookConsoleSinkPlugin")
                      THEN on_adventure_end(ok, attached) ELSE 0)
    /\ UNCHANGED <<storyVars, clock, histVars, cancelRequested, tasks, evlog,
                   attached, decided,
                   oopsVars>>

\* The scope is left, whichever way: END is emitted to the observers.
LeaveScope(path) ==
    /\ scope = "open"
    /\ Suspended = {}
    /\ scope' = "ended"
    /\ exitPath' = path
    /\ endEvents' = endEvents + 1
    /\ \E ok \in BOOLEAN, f1 \in SUBSET MayFail :
          LET d1 == Dispatch("END", f1)
          IN  /\ bus' = <<d1>>
              /\ rendered' = rendered +
                     (IF Contains(d1.called, "StorybookConsoleSinkPlugin")
                      THEN on_adventure_end(ok, attached) ELSE 0)
    /\ UNCHANGED <<storyVars, clock, histVars, cancelRequested, tasks, evlog,
                   attached, decided,
                   oopsVars>>

ExitNormal ==
    /\ ~cancelRequested
    /\ LeaveScope("normal")

ExitFailure ==
    /\ ~cancelRequested
    /\ \E i \in Inv : tasks[i].pc = "aborted"
    /\ LeaveScope("failure")

ExitCancelled ==
    /\ cancelRequested
    /\ LeaveScope("cancelled")

\* No handler of the plugin and no step of the engine reads a timestamp
\* back, so the clock stands still here; it moves in SpecBook.
Next ==
    \/ \E i \in Inv, op \in Ops : Invoke(i, op)
    \/ \E i \in Inv : Succeed(i)
    \/ \E i \in Inv : Fail(i)
    \/ \E i \in Inv : Wake(i)
    \/ \E i \in Inv : Cancel(i)
    \/ RequestCancel
    \/ ExitNormal
    \/ ExitFailure
    \/ ExitCancelled

Spec == Init /\ [][Next]_vars

(* -------------------- direct use of the StoryBook API ----------------- *)
BookTraceIds == {<<"t1">>}
BookChapters == {<<"I">>}
BookStages == {<<"cross_bridge">>}
BookResults == {"ancient wisdom"}
BookOopses == {NoOops, [isNone |-> FALSE, message |-> <<"bridge vanished">>]}
BookNotes == {NoNote, <<"closed by hand">>}
BookParents ==
    {NoId} \cup {build_moment_id(t, c, s) :
                    t \in BookTraceIds, c \in BookChapters, s \in BookStages}
BookAttemptIds ==
    {build_attempt_id(t, c, s, a) :
        t \in BookTraceIds, c \in BookChapters, s \in BookStages,
        a \in 1..MaxBookAttempt}

\* closeCalls after a call that turned the nodes into after and called
\* StoryNode.close on the nodes ids
Closed(after, ids) ==
    [id \in DOMAIN after |->
        (IF id \in DOMAIN closeCalls THEN closeCalls[id] ELSE << >>)
        \o (IF id \in ids THEN <<clock>> ELSE << >>)]

BookEnter ==
    /\ bookOps < MaxBookOps
    /\ \E t \in BookTraceIds, c \in BookChapters, s \in BookStages,
          p \in BookParents :
          LET b == enter(Book, t, c, s, p, clock)
          IN  /\ SetBook(b)
              /\ closeCalls' = Closed(b.nodes, {})
    /\ bookOps' = bookOps + 1
    /\ UNCHANGED <<clock, readout, engineVars, oopsVars>>

BookAttemptEnter ==
    /\ bookOps < MaxBookOps
    /\ \E t \in BookTraceIds, c \in BookChapters, s \in BookStages,
          a \in 1..MaxBookAttempt :
          LET b == attempt_enter(Book, t, c, s, a, NoId, NoId, clock)
          IN  /\ SetBook(b)
              /\ closeCalls' = Closed(b.nodes, {})
    /\ bookOps' = bookOps + 1
    /\ UNCHANGED <<clock, readout, engineVars, oopsVars>>

\* the nodes attempt_success calls close on: the attempt, and its moment if
\* that is RUNNING
SuccessCloses(attempt_id) ==
    IF attempt_id \notin DOMAIN nodes THEN {}
    ELSE LET parent_id == IF nodes[attempt_id].parent_id # NoId
                          THEN nodes[attempt_id].parent_id
                          ELSE parse_moment_id_from_attempt(attempt_id)
         IN  {attempt_id} \cup
             (IF /\ parent_id \in DOMAIN nodes
                 /\ parent_id # attempt_id
                 /\ nodes[parent_id].status = RUNNING
              THEN {parent_id} ELSE {})

BookAttemptSuccess ==
    /\ bookOps < MaxBookOps
    /\ \E id \in BookAttemptIds, r \in BookResults :
          LET b == attempt_success(Book, id, r, clock)
          IN  /\ SetBook(b)
              /\ closeCalls' = Closed(b.nodes, SuccessCloses(id))
    /\ bookOps' = bookOps + 1
    /\ UNCHANGED <<clock, readout, engineVars, oopsVars>>

BookAttemptFail ==
    /\ bookOps < MaxBookOps
    /\ \E id \in BookAttemptIds, o \in BookOopses :
          LET b == attempt_fail(Book, id, o, clock)
          IN  /\ SetBook(b)
              /\ closeCalls' = Closed(b.nodes,
                                      {id} \cap DOMAIN nodes)
    /\ bookOps' = bookOps + 1
    /\ UNCHANGED <<clock, readout, engineVars, oopsVars>>

BookFail ==
    /\ bookOps < MaxBookOps
    /\ \E t \in BookTraceIds, c \in BookChapters, s \in BookStages,
          o \in BookOopses :
          LET b == fail(Book, t, c, s, o, clock)
          IN  /\ SetBook(b)
              /\ closeCalls' = Closed(b.nodes,
                                      {build_moment_id(t, c, s)})
    /\ bookOps' = bookOps + 1
    /\ UNCHANGED <<clock, readout, engineVars, oopsVars>>

\* a caller holding a StoryNode (from get_roots, get_children) closes it
BookClose ==
    /\ bookOps < MaxBookOps
    /\ \E id \in DOMAIN nodes, st \in {RUNNING, SUCCESS, FAILED},
          note \in BookNotes :
          /\ nodes' = [nodes EXCEPT ![id] = Close(@, st, note, clock)]
          /\ closeCalls' = Closed(nodes, {id})
    /\ bookOps' = bookOps + 1
    /\ UNCHANGED <<roots, treasures, tears, clock, readout, engineVars, oopsVars>>

NextBook ==
    \/ Tick
    \/ BookEnter
    \/ BookAttemptEnter
    \/ BookAttemptSuccess
    \/ BookAttemptFail
    \/ BookFail
    \/ BookClose

SpecBook == Init /\ [][NextBook]_vars

(* ------------- StoryBook calls with supplied span ids, and reads ------- *)
MaxTreeOps == 2        \* length of a StoryBook call sequence before a read

TreeStages == {<<"cross_bridge">>, <<"gate", "#", "2">>}
TreeAttempts == {1}
\* span ids a caller supplies: none, one that names no node, and the ids
\* of moments
TreeParents ==
    {NoId, <<"span-1">>} \cup
    {build_moment_id(t, c, s) :
        t \in BookTraceIds, c \in BookChapters, s \in TreeStages}
TreeSpans == {NoId, <<"span-2">>}
TreeAttemptIds ==
    {build_attempt_id(t, c, s, a) :
        t \in BookTraceIds, c \in BookChapters, s \in TreeStages,
        a \in TreeAttempts} \cup (TreeSpans \ {NoId})

TreeEnter ==
    /\ bookOps < MaxTreeOps
    /\ \E t \in BookTraceIds, c \in BookChapters, s \in TreeStages,
          p \in TreeParents :
          SetBook(enter(Book, t, c, s, p, clock))
    /\ bookOps' = bookOps + 1
    /\ readout' = NotRead
    /\ UNCHANGED <<clock, closeCalls, engineVars, oopsVars>>

TreeAttemptEnter ==
    /\ bookOps < MaxTreeOps
    /\ \E t \in BookTraceIds, c \in BookChapters, s \in TreeStages,
          a \in TreeAttempts, sp \in TreeSpans, p \in TreeParents :
          SetBook(attempt_enter(Book, t, c, s, a, sp, p, clock))
    /\ bookOps' = bookOps + 1
    /\ readout' = NotRead
    /\ UNCHANGED <<clock, closeCalls, engineVars, oopsVars>>

TreeAttemptSuccess ==
    /\ bookOps < MaxTreeOps
    /\ \E id \in TreeAttemptIds, r \in BookResults :
          SetBook(attempt_success(Book, id, r, clock))
    /\ bookOps' = bookOps + 1
    /\ readout' = NotRead
    /\ UNCHANGED <<clock, closeCalls, engineVars, oopsVars>>

TreeAttemptFail ==
    /\ bookOps < MaxTreeOps
    /\ \E id \in TreeAttemptIds, o \in BookOopses \ {NoOops} :
          SetBook(attempt_fail(Book, id, o, clock))
    /\ bookOps' = bookOps + 1
    /\ readout' = NotRead
    /\ UNCHANGED <<clock, closeCalls, engineVars, oopsVars>>

TreeFail ==
    /\ bookOps < MaxTreeOps
    /\ \E t \in BookTraceIds, c \in BookChapters, s \in TreeStages,
          o \in BookOopses \ {NoOops} :
          SetBook(fail(Book, t, c, s, o, clock))
    /\ bookOps' = bookOps + 1
    /\ readout' = NotRead
    /\ UNCHANGED <<clock, closeCalls, engineVars, oopsVars>>

\* sb.render_ascii(show_time)
TreeRender ==
    /\ \E show_time \in BOOLEAN :
          LET r == render_ascii(Book, show_time)
          IN  /\ SetBook(r.book)
              /\ readout' = [call |-> "render_ascii", raised |-> r.raised,
                             lines |-> r.lines, show_time |-> show_time]
    /\ UNCHANGED <<clock, closeCalls, bookOps, engineVars, oopsVars>>

\* sb.get_roots()
TreeGetRoots ==
    /\ readout' = [call |-> "get_roots", ids |-> get_roots(Book)]
    /\ UNCHANGED <<storyVars, clock, closeCalls, bookOps, engineVars, oopsVars>>

\* sb.get_children(node_id)
TreeGetChildren ==
    /\ \E id \in DOMAIN nodes \cup {<<"span-1">>} :
          readout' = [call |-> "get_children", of |-> id,
                      ids |-> get_children(Book, id)]
    /\ UNCHANGED <<storyVars, clock, closeCalls, bookOps, engineVars, oopsVars>>

NextTree ==
    \/ TreeEnter
    \/ TreeAttemptEnter
    \/ TreeAttemptSuccess
    \/ TreeAttemptFail
    \/ TreeFail
    \/ TreeRender
    \/ TreeGetRoots
    \/ TreeGetChildren

SpecTree == Init /\ [][NextTree]_vars

(* ------- enter and attempt_enter with any span and parent-span id ------ *)
MaxSpanOps == 3        \* length of an enter / attempt_enter call sequence

SpanStages == {<<"cross_bridge">>, <<"reflect_illusion">>}
\* the ids a caller supplies as span_id or parent_span_id: one that is
\* neither a moment id nor an attempt id, and ids the StoryBook builds itself
SpanIds ==
    {<<"span-1">>,
     build_moment_id(TraceId, <<"I">>, <<"cross_bridge">>),
     build_moment_id(TraceId, <<"I">>, <<"reflect_illusion">>),
     build_attempt_id(TraceId, <<"I">>, <<"cross_bridge">>, 1)}

SpanEnter ==
    /\ bookOps < MaxSpanOps
    /\ \E s \in SpanStages, p \in {NoId} \cup SpanIds :
          SetBook(enter(Book, TraceId, <<"I">>, s, p, clock))
    /\ bookOps' = bookOps + 1
    /\ readout' = NotRead
    /\ UNCHANGED <<clock, closeCalls, engineVars, oopsVars>>

SpanAttemptEnter ==
    /\ bookOps < MaxSpanOps
    /\ \E s \in SpanStages, sp \in {NoId} \cup SpanIds,
          p \in {NoId} \cup SpanIds :
          SetBook(attempt_enter(Book, TraceId, <<"I">>, s, 1, sp, p, clock))
    /\ bookOps' = bookOps + 1
    /\ readout' = NotRead
    /\ UNCHANGED <<clock, closeCalls, engineVars, oopsVars>>

\* sb.render_ascii(show_time=False)
SpanRender ==
    /\ LET r == render_ascii(Book, FALSE)
       IN  /\ SetBook(r.book)
           /\ readout' = [call |-> "render_ascii", raised |-> r.raised,
                          lines |-> r.lines, show_time |-> FALSE]
    /\ UNCHANGED <<clock, closeCalls, bookOps, engineVars, oopsVars>>

NextSpan ==
    \/ SpanEnter
    \/ SpanAttemptEnter
    \/ SpanRender

SpecSpan == Init /\ [][NextSpan]_vars

(* --------------------- chains of OopsError.of calls ------------------- *)
MaxNormalize == 3      \* OopsError.of calls applied one on top of the other

OopsClasses == {"TimeoutError", "ConnectionError", "ValueError", "OSError",
                "RuntimeError", "HTTPError"}
OopsMessages == {<< >>, <<"timed out">>, <<"service unavailable">>,
                 <<"Service Unavailable">>, <<"socket closed">>,
                 <<"invalid", "_request_error">>, <<"badrequest">>}
OopsStatuses == {NoStatus, 429, 401, 403, 408, 404, 499, 500, 503, 599, 600}
OopsStatusCodes == {NoStatus, 429, 0}
OopsResponses ==
    {NoResponse,
     [present |-> TRUE, status_code |-> NoStatus, status |-> NoStatus],
     [present |-> TRUE, status_code |-> 429, status |-> NoStatus],
     [present |-> TRUE, status_code |-> NoStatus, status |-> 429],
     [present |-> TRUE, status_code |-> 503, status |-> NoStatus],
     [present |-> TRUE, status_code |-> 0, status |-> NoStatus]}
OopsErrnos == {NoErrno, "ENOSPC"}

RawFailures ==
    {Raw(c, msg, sc, st, resp, en) :
        c \in OopsClasses, msg \in OopsMessages, sc \in OopsStatusCodes,
        st \in OopsStatuses, resp \in OopsResponses, en \in OopsErrnos}

InitOops ==
    /\ InitStory
    /\ InitEngine
    /\ failure \in RawFailures
    /\ given = NotGiven
    /\ normalized = NoFailure
    /\ normalizeCalls = 0

\* a raw failure is normalized: OopsError(cause=e, category=..., advise=...),
\* which is OopsError.of(e) when both are left out
Construct ==
    /\ normalizeCalls = 0
    /\ \E cat \in {NoCategory, AUTH}, adv \in {NoAdvise, IGNORE} :
          /\ normalized' = OopsError(failure, << >>, << >>, cat, adv)
          /\ given' = [category |-> cat, advise |-> adv]
    /\ normalizeCalls' = 1
    /\ UNCHANGED <<storyVars, clock, histVars, engineVars, failure>>

\* the OopsError is normalized again: OopsError.of(oops)
Renormalize ==
    /\ normalizeCalls >= 1
    /\ normalizeCalls < MaxNormalize
    /\ failure' = normalized
    /\ given' = NotGiven
    /\ normalized' = of(normalized)
    /\ normalizeCalls' = normalizeCalls + 1
    /\ UNCHANGED <<storyVars, clock, histVars, engineVars>>

NextOops ==
    \/ Construct
    \/ Renormalize

SpecOops == InitOops /\ [][NextOops]_vars

(* ------------------------- calls of Hero.decide ---------------------- *)
MaxHeroAttempt == 3    \* attempt numbers of the contexts handed to decide

HeroOopses == {NoOops, of(Raw("ValueError", <<"fog">>, NoStatus, NoStatus,
                              NoResponse, NoErrno))}
HeroResults == {NoResult, "ancient wisdom"}
HeroCtxs ==
    {[attempt |-> a, oops |-> o, result |-> r, wait_seconds |-> w] :
        a \in 0..MaxHeroAttempt, o \in HeroOopses, r \in HeroResults,
        w \in {0, 1}}
HeroAdvices ==
    {Advice(action, w) :
        action \in {RETRY, ABORT, IGNORE, FALLBACK}, w \in 0..MaxWait}

HeroDecide ==
    /\ \E ctx \in HeroCtxs, advice \in HeroAdvices :
          decided' = HeroCall(ctx, advice)
    /\ UNCHANGED <<storyVars, clock, histVars, scope, exitPath, cancelRequested,
                   tasks, evlog, attached, endEvents, rendered, bus, oopsVars>>

NextHero == HeroDecide

SpecHero == Init /\ [][NextHero]_vars

(* ------------------------------- claims ------------------------------- *)
Started == {i \in Inv : tasks[i].pc # "idle"}

OfKind(i, kinds) == SelectSeq(evlog[i], LAMBDA e : e.kind \in kinds)

Kinds(log) == [n \in 1..Len(log) |-> log[n].kind]

\* the raw function of invocation i has failed this many times
Failures(i) == Len(OfKind(i, {"RETRY", "FAIL", "IGNORE", "FALLBACK"}))

\* the elf of invocation i answers RETRY for what the operation raises
RetryRule(i) ==
    LET d == OpDef(tasks[i].op)
    IN  /\ d.raises.cls \in DOMAIN d.rules
        /\ d.rules[d.raises.cls] = RETRY

NodesOf(type, chapter, stage) ==
    {id \in DOMAIN nodes : /\ nodes[id].node_type = type
                           /\ nodes[id].chapter = chapter
                           /\ nodes[id].stage = stage}

\* C1: with retries = 3 and an elf that answers RETRY for the failure, an
\* invocation never gets a 4th BEFORE_FN, and once its raw function has
\* failed on attempts 1, 2 and 3 it has aborted after exactly 3 BEFORE_FN
\* events, with FAIL and EXIT emitted and the OopsError handed to the caller.
C1_AbortsAfterThreeAttempts ==
    \A i \in Started :
        (OpDef(tasks[i].op).retries = 3 /\ RetryRule(i)) =>
            /\ Len(OfKind(i, {"BEFORE_FN"})) <= 3
            /\ Failures(i) = 3 =>
                  /\ tasks[i].pc = "aborted"
                  /\ Len(OfKind(i, {"BEFORE_FN"})) = 3
                  /\ IsOops(tasks[i].ctx.oops)
                  /\ Kinds(SubSeq(evlog[i], Len(evlog[i]) - 1, Len(evlog[i])))
                        = <<"FAIL", "EXIT">>

C1_Witness ==
    \E i \in Started :
        /\ OpDef(tasks[i].op).retries = 3
        /\ RetryRule(i)
        /\ Failures(i) = 3
        /\ tasks[i].pc = "aborted"
        /\ Len(OfKind(i, {"BEFORE_FN"})) = 3

\* C2: END has fired exactly once when the scope has been left, by normal
\* return, propagated failure or cancellation, whatever happened to the
\* invocations inside, and has not fired while the scope is open.
C2_EndExactlyOnce ==
    /\ scope = "ended" => endEvents = 1
    /\ scope = "open" => endEvents = 0

C2_Witness ==
    /\ scope = "ended"
    /\ exitPath = "cancelled"
    /\ \E i \in Inv : tasks[i].pc = "cancelled"
    /\ \E i \in Inv : tasks[i].pc = "aborted"
    /\ endEvents = 1

C4_AttemptNumbering ==
    \A i \in Started :
        LET bf == OfKind(i, {"BEFORE_FN"})
        IN  /\ tasks[i].attempt = Len(bf)
            /\ \A n \in 1..Len(bf) :
                  /\ bf[n].ctx.attempt = n
                  /\ bf[n].ctx.oops = NoOops
                  /\ bf[n].ctx.result = NoResult

C4_Witness ==
    \E i \in Started :
        /\ Len(OfKind(i, {"BEFORE_FN"})) = 3
        /\ tasks[i].ctx.attempt = 3

\* the only invocation of the scope so far is i
Alone(i) == Started = {i}

\* C5: when the only invocation of a scope succeeded on its first attempt,
\* it emitted ENTER, BEFORE_FN(1), SUCCESS and the StoryBook holds exactly
\* its moment footprint and its attempt 1 footprint, both SUCCESS, one
\* Treasure with the returned value, and no Tear.
C5_AlwaysSucceeds ==
    \A i \in Started :
        (Alone(i) /\ tasks[i].pc = "success" /\ Failures(i) = 0) =>
            LET d   == OpDef(tasks[i].op)
                mid == build_moment_id(TraceId, d.chapter, d.stage)
                aid == build_attempt_id(TraceId, d.chapter, d.stage, 1)
            IN  /\ Kinds(evlog[i]) = <<"ENTER", "BEFORE_FN", "SUCCESS">>
                /\ evlog[i][2].ctx.attempt = 1
                /\ DOMAIN nodes = {mid, aid}
                /\ nodes[mid].node_type = MOMENT
                /\ nodes[mid].status = SUCCESS
                /\ nodes[aid].node_type = ATTEMPT
                /\ nodes[aid].attempt = 1
                /\ nodes[aid].status = SUCCESS
                /\ Len(treasures) = 1
                /\ treasures[1].value = d.returns
                /\ tears = << >>

C5_Witness ==
    \E i \in Started :
        /\ Alone(i)
        /\ tasks[i].op = "decode_scroll"
        /\ tasks[i].pc = "success"
        /\ Len(treasures) = 1
        /\ treasures[1].value = "ancient wisdom"

\* the only invocation of the scope is i, its elf has retries = 2 and
\* answers RETRY, every attempt failed and it has aborted
C6_Case(i) ==
    /\ Alone(i)
    /\ OpDef(tasks[i].op).retries = 2
    /\ RetryRule(i)
    /\ tasks[i].pc = "aborted"

C7_MomentPerInvocation ==
    \A op \in Ops :
        Cardinality(NodesOf(MOMENT, OpDef(op).chapter, OpDef(op).stage))
            = Cardinality({i \in Started : tasks[i].op = op})

\* C8: OopsError.of applied to an OopsError gives that OopsError back: the
\* same category, advise, safe message and cause.
C8_NormalizeIdempotent ==
    normalizeCalls >= 2 =>
        /\ normalized.category = failure.category
        /\ normalized.advise = failure.advise
        /\ normalized.safe_message = failure.safe_message
        /\ normalized.cause = failure.cause

\* C9: once a footprint has a terminal status, no StoryBook operation and
\* no close call changes that status.
C9_FirstCloseWins ==
    [][\A id \in DOMAIN nodes :
          nodes[id].status # RUNNING => nodes'[id].status = nodes[id].status]_vars

\* C10: a footprint that has been closed keeps the end timestamp of its
\* first close, however often and with whatever status and note it is
\* closed again.
C10_FirstCloseStamp ==
    \A id \in DOMAIN nodes :
        closeCalls[id] # << >> => nodes[id].finished_at = closeCalls[id][1]

C10_Witness ==
    \E id \in DOMAIN nodes :
        /\ Len(closeCalls[id]) >= 2
        /\ closeCalls[id][Len(closeCalls[id])] > closeCalls[id][1]
        /\ nodes[id].finished_at = closeCalls[id][1]

\* C11: the failure text in the trace is the error's safe_message: for
\* every RETRY and FAIL event of an invocation the attempt footprint of
\* that attempt has the safe message as its note, and for every FAIL event
\* the moment footprint's note and the error of a Tear of its (chapter,
\* stage) are the safe message.
C11_SafeMessageRecorded ==
    \A i \in Started :
        \A n \in 1..Len(evlog[i]) :
            LET e   == evlog[i][n]
                d   == OpDef(tasks[i].op)
                mid == build_moment_id(TraceId, d.chapter, d.stage)
                aid == build_attempt_id(TraceId, d.chapter, d.stage, e.ctx.attempt)
            IN  /\ e.kind \in {"RETRY", "FAIL"} =>
                      nodes[aid].note = e.ctx.oops.safe_message
                /\ e.kind = "FAIL" =>
                      /\ nodes[mid].note = e.ctx.oops.safe_message
                      /\ \E t \in 1..Len(tears) :
                            /\ tears[t].chapter = d.chapter
                            /\ tears[t].stage = d.stage
                            /\ tears[t].error = e.ctx.oops.safe_message

\* the observers that declared kind, in registration order
Declaring(kind) == SelectSeq(Observers, LAMBDA o : kind \in supported_events(o))

\* C12: when an observer fails while handling an event, every observer
\* that declared the event kind has still been called, in registration
\* order, and the StorybookPlugin among them has recorded the event; each
\* invocation's outcome is the one its raw function produced (the returned
\* value after SUCCESS, the OopsError after FAIL, EXIT), and the scope is
\* left only by return, by an aborted invocation or by cancellation.
C12_ObserverFailuresIsolated ==
    /\ \A n \in 1..Len(bus) :
          bus[n].failed # {} => bus[n].called = Declaring(bus[n].kind)
    /\ \A i \in Started :
          LET d    == OpDef(tasks[i].op)
              last == evlog[i][Len(evlog[i])]
          IN  /\ build_moment_id(TraceId, d.chapter, d.stage) \in DOMAIN nodes
              /\ \A n \in 1..tasks[i].attempt :
                    build_attempt_id(TraceId, d.chapter, d.stage, n) \in DOMAIN nodes
              /\ tasks[i].pc \in {"running", "sleeping", "success", "aborted",
                                  "ignored", "fallback", "cancelled"}
              /\ tasks[i].pc = "success" <=> last.kind = "SUCCESS"
              /\ tasks[i].pc = "success" => tasks[i].ctx.result = d.returns
              /\ tasks[i].pc = "aborted" <=> last.kind = "EXIT"
              /\ tasks[i].pc = "aborted" => tasks[i].ctx.oops = Normalize(d.raises)
              /\ last.kind = "EXIT" =>
                    nodes[build_moment_id(TraceId, d.chapter, d.stage)].status = FAILED
    /\ exitPath \in {"None", "normal", "failure", "cancelled"}
    /\ exitPath = "failure" => \E i \in Inv : tasks[i].pc = "aborted"
    /\ exitPath = "cancelled" => cancelRequested

C12_Witness ==
    /\ Len(bus) = 2
    /\ bus[1].kind = "FAIL"
    /\ bus[1].failed = {"TracingStackPlugin"}
    /\ bus[1].called = <<"TracingStackPlugin", "StorybookPlugin">>
    /\ \E i \in Started : tasks[i].pc = "aborted"
    /\ Len(tears) = 1

\* the FAIL events emitted so far, as (invocation, position) pairs
FailEvents ==
    UNION {{<<i, n>> : n \in {k \in 1..Len(evlog[i]) : evlog[i][k].kind = "FAIL"}} :
              i \in Inv}

\* C13: the tears list holds exactly one Tear per FAIL event emitted so
\* far: RETRY, SUCCESS, IGNORE and FALLBACK events have added none, and an
\* invocation that ended with IGNORE or FALLBACK has a Tear of its
\* (chapter, stage) only if another invocation of it failed terminally.
C13_TearsOnlyOnFail ==
    /\ Len(tears) = Cardinality(FailEvents)
    /\ \A t \in 1..Len(tears) :
          \E p \in FailEvents :
              /\ OpDef(tasks[p[1]].op).chapter = tears[t].chapter
              /\ OpDef(tasks[p[1]].op).stage = tears[t].stage

C13_Witness ==
    /\ \E i \in Started : tasks[i].pc = "ignored" /\ evlog[i][3].kind = "IGNORE"
    /\ \E i \in Started : /\ tasks[i].pc = "aborted"
                          /\ Len(OfKind(i, {"RETRY"})) >= 1
    /\ Len(tears) = 1

\* the type rules of the classifier match the failure
TypeMatched(e) ==
    \/ IsTimeoutClass(e)
    \/ IsNetworkClass(e)
    \/ IsValidationClass(e)
    \/ IsOSError(e) /\ e.errno \in IOErrnos

\* the statuses attached to a raw failure: its status_code and status
\* attributes and those of its response
AttachedStatuses(e) ==
    ({e.status_code, e.status} \cup
     (IF e.response.present
      THEN {e.response.status_code, e.response.status} ELSE {}))
    \ {NoStatus}

C15_TimeoutRetry ==
    ( /\ normalizeCalls = 1
      /\ given.category = NoCategory
      /\ IsTimeoutClass(failure) )
    => /\ normalized.category = TIMEOUT
       /\ given.advise = NoAdvise => normalized.advise = RETRY

C15_Witness ==
    /\ normalizeCalls = 1
    /\ given = NotGiven
    /\ failure.cls = "TimeoutError"
    /\ failure.msg = <<"timed out">>
    /\ failure.status = 429
    /\ normalized.category = TIMEOUT
    /\ normalized.advise = RETRY

\* the line render_ascii prints for the footprint id
LineOf(id, line) ==
    /\ line.tag = tag(nodes[id])
    /\ line.chapter = nodes[id].chapter
    /\ line.stage = nodes[id].stage
    /\ line.mark = mark(nodes[id])

\* C16: what render_ascii returns has one line for each footprint the
\* StoryBook holds, a RUNNING one with the in-progress mark, and it does
\* not raise.
C16_RenderOmitsNothing ==
    readout.call = "render_ascii" =>
        /\ ~readout.raised
        /\ Len(readout.lines) = Cardinality(DOMAIN nodes)
        /\ \A id \in DOMAIN nodes :
              \E n \in 1..Len(readout.lines) :
                  /\ LineOf(id, readout.lines[n])
                  /\ nodes[id].status = RUNNING =>
                        readout.lines[n].mark = "hourglass"

\* C17: a call of render_ascii, get_roots or get_children leaves nodes,
\* roots, treasures and tears as they were.
C17_ReadsChangeNothing ==
    [][readout'.call # "None" => storyVars' = storyVars]_vars

C17_Witness ==
    /\ readout.call = "render_ascii"
    /\ \E id \in DOMAIN nodes : nodes[id].status = RUNNING
    /\ \E n \in 1..Len(readout.lines) : readout.lines[n].mark = "hourglass"
    /\ \E n \in 1..Len(readout.lines) : readout.lines[n].mark = "skull"

\* the footprints of invocation i show the outcome out: its moment and the
\* attempt it ended on have status st
ShowsOutcome(i, st) ==
    LET d == OpDef(tasks[i].op)
    IN  /\ nodes[build_moment_id(TraceId, d.chapter, d.stage)].status = st
        /\ nodes[build_attempt_id(TraceId, d.chapter, d.stage,
                                  tasks[i].attempt)].status = st

\* C18: of two invocations of the same operation in one scope, each one
\* that has ended has footprints showing its own outcome: SUCCESS if it
\* returned, FAILED if it aborted, however their events interleaved.
C18_OwnOutcome ==
    \A i \in Started, j \in Started :
        (i # j /\ tasks[i].op = tasks[j].op) =>
            /\ tasks[i].pc = "success" => ShowsOutcome(i, SUCCESS)
            /\ tasks[i].pc = "aborted" => ShowsOutcome(i, FAILED)

\* C19: a step in which an invocation emits SUCCESS appends a Treasure for
\* its (chapter, stage) and leaves its attempt footprint and its owning
\* moment footprint with status SUCCESS.
C19_SuccessClosesMoment ==
    [][\A i \in Inv :
          (tasks[i].pc = "running" /\ tasks'[i].pc = "success") =>
              LET d == OpDef(tasks[i].op)
              IN  /\ Len(treasures') = Len(treasures) + 1
                  /\ treasures'[Len(treasures')].chapter = d.chapter
                  /\ treasures'[Len(treasures')].stage = d.stage
                  /\ nodes'[build_attempt_id(TraceId, d.chapter, d.stage,
                                             tasks[i].attempt)].status = SUCCESS
                  /\ nodes'[build_moment_id(TraceId, d.chapter, d.stage)].status
                        = SUCCESS]_vars

\* C20: every attempt footprint has as parent the moment footprint with
\* the id trace_id:chapter/stage of its own chapter and stage, and is among
\* that moment's children.
C20_AttemptUnderItsMoment ==
    \A id \in DOMAIN nodes :
        nodes[id].node_type = ATTEMPT =>
            \E t \in BookTraceIds :
                LET mid == build_moment_id(t, nodes[id].chapter, nodes[id].stage)
                IN  /\ nodes[id].parent_id = mid
                    /\ mid \in DOMAIN nodes
                    /\ nodes[mid].node_type = MOMENT
                    /\ Contains(nodes[mid].children, id)

\* the terminal positions of an invocation: its last event has been handled
Terminal == {"success", "aborted", "ignored", "fallback"}

\* C21: once the only invocation of a scope has ended (SUCCESS, FAIL then
\* EXIT, IGNORE or FALLBACK), its moment footprint and every attempt
\* footprint of its chapter and stage have a status other than RUNNING.
C21_TerminalClosesTrace ==
    \A i \in Started :
        (Alone(i) /\ tasks[i].pc \in Terminal) =>
            LET d   == OpDef(tasks[i].op)
                mid == build_moment_id(TraceId, d.chapter, d.stage)
            IN  /\ nodes[mid].status # RUNNING
                /\ \A id \in NodesOf(ATTEMPT, d.chapter, d.stage) :
                       nodes[id].status # RUNNING

\* the substrings the classifier looks for in a message
MessageNeedles ==
    {<<"service unavailable">>, <<"socket closed">>, <<"validation">>,
     <<"invalid">>, <<"schema">>, <<"badrequest">>,
     <<"invalid", "_request_error">>}

MessageMatched(message) == \E needle \in MessageNeedles : IsIn(needle, message)

\* the category the status table gives a status, UNKNOWN if it has no entry
StatusCategory(s) ==
    CASE s = 429                -> RATE_LIMIT
      [] s \in {401, 403}       -> AUTH
      [] 500 <= s /\ s <= 599   -> NETWORK
      [] s = 408                -> TIMEOUT
      [] OTHER                  -> UNKNOWN

\* C22: a raw failure that the type rules do not match and that carries
\* the one status s, s not 0, normalized with no category given, has the
\* category of the status table for s (429 RATE_LIMIT, 401 and 403 AUTH,
\* 500..599 NETWORK, 408 TIMEOUT) and http_status s; for any other s, when
\* its message matches nothing, it has category UNKNOWN and http_status s.
C22_StatusMapping ==
    (normalizeCalls = 1 /\ given.category = NoCategory /\ ~TypeMatched(failure)) =>
        \A s \in AttachedStatuses(failure) :
            (AttachedStatuses(failure) = {s} /\ s # 0) =>
                /\ StatusCategory(s) # UNKNOWN =>
                      /\ normalized.category = StatusCategory(s)
                      /\ normalized.http_status = s
                /\ ( /\ StatusCategory(s) = UNKNOWN
                     /\ ~MessageMatched(normalized.message) ) =>
                      /\ normalized.category = UNKNOWN
                      /\ normalized.http_status = s

C22_Witness ==
    /\ normalizeCalls = 1
    /\ given.category = NoCategory
    /\ failure.cls = "HTTPError"
    /\ failure.msg = <<"timed out">>
    /\ AttachedStatuses(failure) = {404}
    /\ failure.status = 404
    /\ normalized.category = UNKNOWN
    /\ normalized.http_status = 404

\* neither the type rules nor the status table match the raw failure
Unmapped(e) ==
    /\ ~TypeMatched(e)
    /\ \A s \in AttachedStatuses(e) : StatusCategory(s) = UNKNOWN

\* C23: a raw failure that the type rules and the status table do not
\* match and whose message contains "badrequest" or
\* "invalid_request_error", normalized with no category given, has
\* category BAD_REQUEST and http_status 400.
C23_BadRequest400 ==
    ( /\ normalizeCalls = 1
      /\ given.category = NoCategory
      /\ Unmapped(failure)
      /\ \/ IsIn(<<"badrequest">>, normalized.message)
         \/ IsIn(<<"invalid", "_request_error">>, normalized.message) )
    => /\ normalized.category = BAD_REQUEST
       /\ normalized.http_status = 400

\* str.lower() on a message, token by token
lower(message) ==
    [n \in 1..Len(message) |->
        CASE message[n] = "Service Unavailable" -> "service unavailable"
          [] message[n] = "TimeoutError"        -> "timeouterror"
          [] message[n] = "ConnectionError"     -> "connectionerror"
          [] message[n] = "ValueError"          -> "valueerror"
          [] message[n] = "OSError"             -> "oserror"
          [] message[n] = "RuntimeError"        -> "runtimeerror"
          [] message[n] = "HTTPError"           -> "httperror"
          [] OTHER                              -> message[n]]

\* C24: a raw failure that the type rules and the status table do not
\* match and whose message, lowercased, contains "service unavailable" or
\* "socket closed", normalized with no category given, has category
\* NETWORK and http_status 503.
C24_LowercasedMatch ==
    ( /\ normalizeCalls = 1
      /\ given.category = NoCategory
      /\ Unmapped(failure)
      /\ \/ IsIn(<<"service unavailable">>, lower(normalized.message))
         \/ IsIn(<<"socket closed">>, lower(normalized.message)) )
    => /\ normalized.category = NETWORK
       /\ normalized.http_status = 503

\* line n of a rendering has a later sibling: a later line at its depth
\* with only deeper lines in between
LaterSibling(lines, n) ==
    \E k \in (n + 1)..Len(lines) :
        /\ Len(lines[k].prefix) = Len(lines[n].prefix)
        /\ \A j \in (n + 1)..(k - 1) :
               Len(lines[j].prefix) > Len(lines[n].prefix)

\* C25: in what render_ascii returns, a line has the last-sibling
\* connector if it is the last among its siblings and the intermediate
\* connector if a sibling follows it, among the roots and among the
\* children of each node.
C25_Connectors ==
    (readout.call = "render_ascii" /\ ~readout.raised) =>
        \A n \in 1..Len(readout.lines) :
            readout.lines[n].connector =
                IF LaterSibling(readout.lines, n) THEN "mid" ELSE "last"

C25_Witness ==
    /\ readout.call = "render_ascii"
    /\ Len(roots) = 2
    /\ Len(readout.lines) = 3
    /\ readout.lines[1].connector = "mid"
    /\ readout.lines[2].prefix = <<"bar">>
    /\ readout.lines[2].connector = "last"
    /\ readout.lines[3].prefix = << >>
    /\ readout.lines[3].connector = "last"

\* C26: a call of Hero.decide returns a Decision with the action and the
\* wait_seconds of the advice it was given, and leaves the advice and the
\* context as they were passed.
C26_DecidePassThrough ==
    decided.called =>
        /\ decided.decision.action = decided.advice.action
        /\ decided.decision.wait_seconds = decided.advice.wait_seconds
        /\ decided.advice_after = decided.advice
        /\ decided.ctx_after = decided.ctx

C26_Witness ==
    /\ decided.called
    /\ decided.advice = Advice(RETRY, 2)
    /\ decided.ctx.attempt = 2
    /\ decided.ctx.wait_seconds = 0
    /\ ~decided.ctx.oops.isNone
    /\ decided.decision = [action |-> RETRY, wait_seconds |-> 2]

NoDuplicate(seq) == \A m, n \in 1..Len(seq) : seq[m] = seq[n] => m = n

\* roots and children lists name nodes, without duplicates, and a node is
\* a child of at most one node
TreeWellFormed ==
    /\ \A n \in 1..Len(roots) : roots[n] \in DOMAIN nodes
    /\ NoDuplicate(roots)
    /\ \A id \in DOMAIN nodes :
          /\ \A n \in 1..Len(nodes[id].children) :
                 nodes[id].children[n] \in DOMAIN nodes
          /\ NoDuplicate(nodes[id].children)
    /\ \A p, q \in DOMAIN nodes, c \in DOMAIN nodes :
          (Contains(nodes[p].children, c) /\ Contains(nodes[q].children, c))
              => p = q

\* a step removes no node and keeps what each node is
NodesKept ==
    \A id \in DOMAIN nodes :
        /\ id \in DOMAIN nodes'
        /\ nodes'[id].chapter = nodes[id].chapter
        /\ nodes'[id].stage = nodes[id].stage
        /\ nodes'[id].node_type = nodes[id].node_type
        /\ nodes'[id].attempt = nodes[id].attempt
        /\ nodes'[id].parent_id = nodes[id].parent_id

\* C27: after any sequence of enter, attempt_enter, attempt_success,
\* attempt_fail and fail calls, every id in roots and in a children list is
\* a key of nodes, no list holds an id twice, an id is in the children of
\* at most one node, and no call removes a node or changes its chapter,
\* stage, type, attempt number or parent.
C27_TreeWellFormed == []TreeWellFormed /\ [][NodesKept]_vars

C27_Witness ==
    /\ bookOps = MaxTreeOps
    /\ Len(roots) = 1
    /\ \E id \in DOMAIN nodes :
          /\ nodes[id].node_type = MOMENT
          /\ nodes[id].parent_id = roots[1]
          /\ nodes[roots[1]].children = <<id>>

ChildrenOf(ids) ==
    UNION {{nodes[id].children[n] : n \in 1..Len(nodes[id].children)} :
              id \in ids \cap DOMAIN nodes}

RECURSIVE Closure(_, _)
\* ids and everything below them, following children for k levels
Closure(ids, k) ==
    IF k = 0 THEN ids ELSE Closure(ids \cup ChildrenOf(ids), k - 1)

\* the nodes below id: its children, their children, and so on
Below(id) == Closure(ChildrenOf({id}), Cardinality(DOMAIN nodes))

FromRoots == Closure({roots[n] : n \in 1..Len(roots)}, Cardinality(DOMAIN nodes))

\* C28: whatever span and parent-span ids enter and attempt_enter were
\* given, no node reached from the roots through children is below
\* itself, and render_ascii returns: its recursion does not run out.
C28_RenderTerminates ==
    /\ \A id \in FromRoots : id \notin Below(id)
    /\ ~render_ascii(Book, FALSE).raised
    /\ readout.call = "render_ascii" => ~readout.raised

C28_Witness ==
    /\ readout.call = "render_ascii"
    /\ ~readout.raised
    /\ Len(readout.lines) >= 1
    /\ \E id \in DOMAIN nodes :
          /\ nodes[id].parent_id = id
          /\ Contains(nodes[id].children, id)

\* C29: a footprint has status RUNNING exactly when its finished_at is
\* unset: one that is SUCCESS or FAILED has an end timestamp, and one with
\* an end timestamp is not RUNNING.
C29_RunningIffUnfinished ==
    \A id \in DOMAIN nodes :
        nodes[id].status = RUNNING <=> nodes[id].finished_at = NoTime

C29_Witness ==
    /\ \E id \in DOMAIN nodes :
          /\ nodes[id].node_type = MOMENT
          /\ nodes[id].status = RUNNING
          /\ nodes[id].finished_at = NoTime
    /\ \E id \in DOMAIN nodes :
          /\ nodes[id].node_type = ATTEMPT
          /\ nodes[id].status = FAILED
          /\ nodes[id].finished_at # NoTime

====
